---- MODULE Spec2Model ----
(***************************************************************************)
(* The book catalog of src/index.ts: the in-memory `books` array, the      *)
(* GraphQL resolvers over it (getBook, addBook, deleteBook, updateBook)    *)
(* and the bookSub subscription fed by a graphql-subscriptions PubSub.     *)
(*                                                                         *)
(* Conventions.                                                            *)
(*  - A JavaScript value that may be null/undefined is a sequence of       *)
(*    length at most one: <<>> is null/undefined, <<v>> is the value v.    *)
(*  - A Book object is a cell of `heap`, named by its index (its object    *)
(*    identity); `books`, the pending payloads and the resolvers' results  *)
(*    hold such references, as the JavaScript values do.                   *)
(*  - A Float rating is held in tenths: 4.5 is 45.                         *)
(*  - Every resolver is synchronous (no await), so Node runs each call to  *)
(*    completion: one action per call.                                     *)
(***************************************************************************)
EXTENDS Integers, Sequences, FiniteSets, TLC

(***************************************************************************)
(* Bounds of the model.                                                    *)
(***************************************************************************)
\* addBook calls that pass input validation
MaxAdds == 2
\* subscription streams ever opened
MaxSubscribers == 2
\* calls made by clients under Spec (queries, mutations, subscriptions opened and closed)
MaxCalls == 5
\* calls made by clients under SpecStore
MaxStoreOps == 1
\* calls made by clients under SpecQuery
MaxQueryCalls == 4

(***************************************************************************)
(* Values.                                                                 *)
(***************************************************************************)
Absent == <<>>

Some(v) == <<v>>

\* JavaScript truthiness of a string: not null/undefined and not "".
TruthyStr(a) == a # Absent /\ a[1] # ""

\* JavaScript truthiness of a number: not null/undefined and not 0.
TruthyNum(a) == a # Absent /\ a[1] # 0

OrStrNullish(a, b) == IF a # Absent THEN a ELSE b

OrNumNullish(a, b) == IF a # Absent THEN a ELSE b

\* a || b on strings
OrStr(a, b) == IF TruthyStr(a) THEN a ELSE b

\* a || b on numbers
OrNum(a, b) == IF TruthyNum(a) THEN a ELSE b

Range(f) == {f[i] : i \in DOMAIN f}

(***************************************************************************)
(* Strings. A string is a sequence of characters: Head is its first        *)
(* character, Tail the rest, SubSeq a slice.                               *)
(***************************************************************************)
UpperCase == "ABCDEFGHIJKLMNOPQRSTUVWXYZ"

LowerCase == "abcdefghijklmnopqrstuvwxyz"

\* the lower-case form of each letter A..Z
LowerOf ==
  [c \in {SubSeq(UpperCase, k, k) : k \in 1 .. Len(UpperCase)} |->
     LET k == CHOOSE k \in 1 .. Len(UpperCase) : SubSeq(UpperCase, k, k) = c
     IN  SubSeq(LowerCase, k, k)]

\* the lower-case form of one character: a letter A..Z maps to a..z, any
\* other character of the titles and terms here (ASCII) to itself
ToLowerChar(c) == IF c \in DOMAIN LowerOf THEN LowerOf[c] ELSE c

sameCase(str) == str

\* str.toLowerCase()
RECURSIVE toLowerCase(_)
toLowerCase(str) ==
  IF str = "" THEN "" ELSE ToLowerChar(Head(str)) \o toLowerCase(Tail(str))

\* str.startsWith(searchString)
startsWith(str, searchString) ==
  /\ Len(searchString) <= Len(str)
  /\ SubSeq(str, 1, Len(searchString)) = searchString

\* str.includes(searchString): scan the positions from the left
RECURSIVE includes(_, _)
includes(str, searchString) ==
  \/ startsWith(str, searchString)
  \/ str # "" /\ includes(Tail(str), searchString)

(***************************************************************************)
(* const books = [...]: the seven seed Books (descriptions cut to their    *)
(* first words).                                                           *)
(***************************************************************************)
SeedBooks ==
  << [id |-> "n12clfp3K", title |-> Some("The Guardians"),
      description |-> Some("In the small Florida town of Seabrook, ..."),
      rating |-> Some(45), author |-> Some("John Grisham"), year |-> Some(1970)],
     [id |-> "TaFvKQmgQ", title |-> Some("The Girl on the Train"),
      description |-> Some("Rachel catches the same commuter train every morning. ..."),
      rating |-> Some(42), author |-> Some("John Grisham"), year |-> Some(2016)],
     [id |-> "3y-67bb6Z", title |-> Some("Fahrenheit 451"),
      description |-> Some("The terrifyingly prophetic novel of a post-literate future."),
      rating |-> Some(46), author |-> Some("Ray Bradbury"), year |-> Some(1953)],
     [id |-> "Rw3sPphui", title |-> Some("To Kill a Mockingbird"),
      description |-> Some("The perennially beloved and treacly account of growing up ..."),
      rating |-> Some(46), author |-> Some("Harper Lee"), year |-> Some(1960)],
     [id |-> "b8eWGRQo6", title |-> Some("The Shining"),
      description |-> Some("Jack Torrance's new job at the Overlook Hotel is ..."),
      rating |-> Some(47), author |-> Some("Stephen King"), year |-> Some(1980)],
     [id |-> "HVL-jHzdH", title |-> Some("Foundation"),
      description |-> Some("The first novel in Isaac Asimov's classic science-fiction masterpiece, the Foundation series"),
      rating |-> Some(45), author |-> Some("Isaak Asimov"), year |-> Some(1942)],
     [id |-> "eqbOaeNk-", title |-> Some("The Catcher in the Rye"),
      description |-> Some("The hero-narrator of The Catcher in the Rye is ..."),
      rating |-> Some(46), author |-> Some("J. D. Salinger"), year |-> Some(1951)] >>

NSeed == Len(SeedBooks)

VARIABLES
  heap,       \* the Book objects ever allocated, by reference
  books,      \* the `books` array: a sequence of references
  issued,     \* the ids nanoid() has returned
  status,     \* per subscription stream: "new", "subscribed", "returned"
  pushQueue,  \* per stream: the payloads published and not yet pulled
  received,   \* per stream: the Books forwarded to its client, in order
  resp,       \* the response to the last query or mutation
  calls,      \* the calls clients have made
  published,  \* history: the references published on "bookSub", in order
  created,    \* history: the references addBook pushed on `books`, in order
  regAt,      \* history: per stream, Len(published) when it registered
  returned,   \* history: the Books addBook returned, as returned, in order
  phase       \* the server: "running", "draining", "exited"

vars == <<heap, books, issued, status, pushQueue, received, resp,
          calls, published, created, regAt, returned, phase>>

storeVars == <<heap, books, issued>>

channelVars == <<status, pushQueue, received, regAt>>

Subscribers == 1 .. MaxSubscribers

\* addBook calls that allocated a Book
nAdds == Len(heap) - NSeed

(***************************************************************************)
(* nanoid(): a 21-character random id. The generator is taken at its       *)
(* contract: it does not return a value it returned before. Seed ids have  *)
(* nine characters, so a generated id never equals one of them.            *)
(***************************************************************************)
NanoId(i) == "V1StGXR8_Z5jdHi6B-my" \o ToString(i)

NanoIdPool == {NanoId(i) : i \in 1 .. MaxAdds}

\* an id made from the array's length
nanoidFromLength == {NanoId(((Len(books) - NSeed) % MaxAdds) + 1)}

\* the values a call of nanoid() may return
nanoid == NanoIdPool \ issued

(***************************************************************************)
(* Inputs.                                                                 *)
(***************************************************************************)
StrInputs(s) == {Absent, Some(""), Some(s)}

NumInputs(n) == {Absent, Some(0), Some(n)}

\* every argument a client may send as addBook(input: ...), missing fields included
BookInputs ==
  [title : StrInputs("Dune"), description : StrInputs("Spice"),
   rating : NumInputs(41), author : StrInputs("Frank Herbert"),
   year : NumInputs(1965)]

\* the id of a seed Book, an id nanoid() may return, and an id of no Book
IdInputs == {SeedBooks[1].id, NanoId(1), "no-such-id"}

UpdateBookInputs ==
  [id : IdInputs, title : StrInputs("Dune Messiah"), description : StrInputs("Sequel"),
   rating : NumInputs(38), author : StrInputs("F. Herbert"), year : NumInputs(1969)]

\* the inputs of Spec, where the channel is the subject
SmallBookInputs ==
  {in \in BookInputs : /\ in.author = Some("Frank Herbert")
                       /\ in.year = Some(1965)
                       /\ in.description = Absent
                       /\ in.rating = Absent
                       /\ in.title \in {Absent, Some("Dune")}}

SmallUpdateBookInputs ==
  {in \in UpdateBookInputs : /\ in.author = Absent
                             /\ in.year = Absent
                             /\ in.description = Absent
                             /\ in.rating = Absent
                             /\ in.title \in {Some(""), Some("Dune Messiah")}}

\* allBooks(search: ...): no term, the empty term, a term in another case than
\* the titles that contain it, a term of an added title, a term of no title
SearchInputs == {Absent, Some(""), Some("train"), Some("THE"), Some("dune"), Some("xyz")}

(***************************************************************************)
(* The schema (typeDefs) as GraphQL applies it around the resolvers.       *)
(***************************************************************************)
\* input BookInput: title: String!, author: String!, year: Int!
ValidBookInput(input) ==
  input.title # Absent /\ input.author # Absent /\ input.year # Absent

NoResp == [op |-> "", kind |-> "none", value |-> <<>>, error |-> ""]

Data(op, v) == [op |-> op, kind |-> "data", value |-> v, error |-> ""]

Error(op, e) == [op |-> op, kind |-> "error", value |-> <<>>, error |-> e]

\* a field of type Book!: a null result is a field error, which the response
\* carries in `errors`; otherwise the Book's fields as they are when it is completed
CompleteBookNonNull(op, ref, h) ==
  IF ref = Absent THEN Error(op, "Cannot return null for non-nullable field")
  ELSE Data(op, Some(h[ref[1]]))

\* a field of type [Book]: the list of the Books, each with its fields as they
\* are when it is completed (title: String! is never null in the array)
CompleteBookList(op, refs, h) ==
  Data(op, Some([i \in 1 .. Len(refs) |-> h[refs[i]]]))

\* a field of type Boolean: null is null; a Book object is not a boolean, and
\* GraphQLBoolean.serialize throws on it
CompleteBoolean(op, ref) ==
  IF ref = Absent THEN Data(op, Absent)
  ELSE Error(op, "Boolean cannot represent a non boolean value")

(***************************************************************************)
(* The array operations the resolvers use.                                 *)
(***************************************************************************)
\* books.find((book) => book.id): the first Book, whatever id is asked for
findFirst(id, bks, h) == IF bks = <<>> THEN Absent ELSE Some(bks[1])

\* books.find((book) => book.id === id): the first match, or undefined
find(id, bks, h) ==
  LET hits == {i \in DOMAIN bks : h[bks[i]].id = id}
  IN  IF hits = {} THEN Absent
      ELSE Some(bks[CHOOSE i \in hits : \A j \in hits : i <= j])

\* books.findIndex((book) => book.id === id): 0 stands for JavaScript's -1
findIndex(id, bks, h) ==
  LET hits == {i \in DOMAIN bks : h[bks[i]].id = id}
  IN  IF hits = {} THEN 0 ELSE CHOOSE i \in hits : \A j \in hits : i <= j

\* books.splice(index, 1): the array that remains
splice(bks, index) ==
  SubSeq(bks, 1, index - 1) \o SubSeq(bks, index + 1, Len(bks))

\* books.filter((book) => book.title.toLowerCase().includes(search.toLowerCase()))
filter(bks, search, h) ==
  SelectSeq(bks, LAMBDA ref : includes(toLowerCase(h[ref].title[1]), toLowerCase(search)))

pushNothing(bks, ref) == bks

\* books.unshift(newBook)
unshift(bks, ref) == <<ref>> \o bks

\* books.push(newBook)
push(bks, ref) == Append(bks, ref)

(***************************************************************************)
(* The PubSub of graphql-subscriptions, as index.ts uses it.               *)
(***************************************************************************)
Listeners == {s \in Subscribers : status[s] = "subscribed"}

publishToOne(payload) ==
  [s \in Subscribers |->
     IF s \in Listeners /\ \A t \in Listeners : s <= t
     THEN Append(pushQueue[s], payload) ELSE pushQueue[s]]

publishInFront(payload) ==
  [s \in Subscribers |->
     IF s \in Listeners THEN <<payload>> \o pushQueue[s] ELSE pushQueue[s]]

\* pubsub.publish("bookSub", payload): every registered listener's iterator
\* queues the payload; with no listener nothing is kept
publish(payload) ==
  [s \in Subscribers |->
     IF s \in Listeners THEN Append(pushQueue[s], payload) ELSE pushQueue[s]]

asyncIteratorReplaying == [i \in DOMAIN published |-> [addBook |-> published[i]]]

\* pubsub.asyncIterator("bookSub"): a new iterator, its queue empty
asyncIterator == <<>>

\* resolve: (payload) => payload.addBook
resolve(payload) == payload.addBook

(***************************************************************************)
(* The state after the module has loaded: the seed array, no stream.       *)
(***************************************************************************)
Init ==
  /\ heap = SeedBooks
  /\ books = [i \in 1 .. NSeed |-> i]
  /\ issued = {}
  /\ status = [s \in Subscribers |-> "new"]
  /\ pushQueue = [s \in Subscribers |-> <<>>]
  /\ received = [s \in Subscribers |-> <<>>]
  /\ resp = NoResp
  /\ calls = 0
  /\ published = <<>>
  /\ created = <<>>
  /\ regAt = [s \in Subscribers |-> 0]
  /\ returned = <<>>
  /\ phase = "running"

(***************************************************************************)
(* Query.allBooks                                                          *)
(***************************************************************************)
AllBooks(search) ==
  /\ phase # "exited"
  /\ IF ~TruthyStr(search)
     THEN resp' = CompleteBookList("allBooks", books, heap)
     ELSE resp' = CompleteBookList("allBooks", filter(books, search[1], heap), heap)
  /\ calls' = calls + 1
  /\ UNCHANGED <<storeVars, channelVars, published, created, returned, phase>>

(***************************************************************************)
(* Query.getBook                                                           *)
(***************************************************************************)
GetBook(id) ==
  /\ phase # "exited"
  /\ resp' = CompleteBookNonNull("getBook", find(id, books, heap), heap)
  /\ calls' = calls + 1
  /\ UNCHANGED <<storeVars, channelVars, published, created, returned, phase>>

(***************************************************************************)
(* Mutation.addBook. GraphQL rejects an input without title, author or     *)
(* year before the resolver runs.                                          *)
(***************************************************************************)
AddBook(input) ==
  /\ phase # "exited"
  /\ calls' = calls + 1
  /\ IF ~ValidBookInput(input)
     THEN /\ resp' = Error("addBook", "BAD_USER_INPUT")
          /\ UNCHANGED <<storeVars, channelVars, published, created, returned, phase>>
     ELSE \E id \in nanoid :
            LET newBook == [id |-> id,
                            title |-> input.title,
                            description |-> OrStr(input.description, Some("")),
                            rating |-> OrNum(input.rating, Absent),
                            year |-> input.year,
                            author |-> input.author]
                ref == Len(heap) + 1
            IN  /\ heap' = Append(heap, newBook)
                /\ issued' = issued \cup {id}
                /\ books' = push(books, ref)
                /\ created' = created \o SubSeq(books', Len(books) + 1, Len(books'))
                /\ pushQueue' = publish([addBook |-> ref])
                /\ published' = Append(published, ref)
                /\ resp' = CompleteBookNonNull("addBook", Some(ref), heap')
                /\ returned' = returned \o <<resp'.value[1]>>
                /\ UNCHANGED <<status, received, regAt, phase>>

(***************************************************************************)
(* Mutation.deleteBook. The schema types the field Boolean; the resolver   *)
(* returns the removed Book or null.                                       *)
(***************************************************************************)
\* a deleteBook that publishes the removed Book on "bookSub"
DeleteBookPublishing(id) ==
  LET index == findIndex(id, books, heap)
  IN  /\ phase # "exited"
      /\ IF index # 0
         THEN /\ books' = splice(books, index)
              /\ pushQueue' = publish([addBook |-> books[index]])
              /\ resp' = CompleteBoolean("deleteBook", Some(books[index]))
         ELSE /\ books' = books
              /\ pushQueue' = pushQueue
              /\ resp' = CompleteBoolean("deleteBook", Absent)
      /\ calls' = calls + 1
      /\ UNCHANGED <<heap, issued, status, received, regAt, published, created, returned, phase>>

DeleteBook(id) ==
  LET index == findIndex(id, books, heap)
  IN  /\ phase # "exited"
      /\ IF index # 0
         THEN /\ books' = splice(books, index)
              /\ resp' = CompleteBoolean("deleteBook", Some(books[index]))
         ELSE /\ books' = books
              /\ resp' = CompleteBoolean("deleteBook", Absent)
      /\ calls' = calls + 1
      /\ UNCHANGED <<heap, issued, channelVars, published, created, returned, phase>>

(***************************************************************************)
(* Mutation.updateBook                                                     *)
(***************************************************************************)
UpdateBook(input) ==
  LET bookToUpdate == find(input.id, books, heap)
  IN  /\ phase # "exited"
      /\ calls' = calls + 1
      /\ UNCHANGED <<books, issued, channelVars, published, created, returned, phase>>
      /\ IF bookToUpdate # Absent
         THEN LET ref == bookToUpdate[1]
                  old == heap[ref]
              IN  heap' = [heap EXCEPT ![ref] =
                             [id |-> old.id,
                              title |-> OrStr(input.title, old.title),
                              description |-> OrStr(input.description, old.description),
                              author |-> OrStr(input.author, old.author),
                              year |-> OrNum(input.year, old.year),
                              rating |-> OrNum(input.rating, old.rating)]]
         ELSE heap' = heap
      /\ resp' = CompleteBookNonNull("updateBook", bookToUpdate, heap')

(***************************************************************************)
(* Subscription.bookSub                                                    *)
(***************************************************************************)
\* a client opens the subscription over the WebSocket server, which accepts
\* connections until it is disposed of: subscribe() makes the iterator, which
\* registers its listener on the "bookSub" trigger
Subscribe(s) ==
  /\ phase = "running"
  /\ status[s] = "new"
  /\ status' = [status EXCEPT ![s] = "subscribed"]
  /\ pushQueue' = [pushQueue EXCEPT ![s] = asyncIterator]
  /\ regAt' = [regAt EXCEPT ![s] = Len(published)]
  /\ calls' = calls + 1
  /\ UNCHANGED <<storeVars, received, resp, published, created, returned, phase>>

\* a pull that waits until no other listener has more pending than stream s
DeliverInStep(s) ==
  /\ phase # "exited"
  /\ status[s] = "subscribed"
  /\ pushQueue[s] # <<>>
  /\ \A t \in Listeners : Len(pushQueue[t]) <= Len(pushQueue[s])
  /\ LET ref == resolve(Head(pushQueue[s]))
     IN  received' = [received EXCEPT ![s] = Append(@, [ref |-> ref, book |-> heap[ref]])]
  /\ pushQueue' = [pushQueue EXCEPT ![s] = Tail(@)]
  /\ UNCHANGED <<storeVars, status, regAt, resp, calls, published, created, returned, phase>>

\* the transport pulls the next payload of stream s; resolve unwraps it and the
\* Book is completed, field by field, from the object as it is now
Deliver(s) ==
  /\ phase # "exited"
  /\ status[s] = "subscribed"
  /\ pushQueue[s] # <<>>
  /\ LET ref == resolve(Head(pushQueue[s]))
     IN  received' = [received EXCEPT ![s] = Append(@, [ref |-> ref, book |-> heap[ref]])]
  /\ pushQueue' = [pushQueue EXCEPT ![s] = Tail(@)]
  /\ UNCHANGED <<storeVars, status, regAt, resp, calls, published, created, returned, phase>>

\* a return() that removes every listener of the trigger
CancelEveryone(s) ==
  /\ phase # "exited"
  /\ status[s] = "subscribed"
  /\ status' = [t \in Subscribers |->
                  IF status[t] = "subscribed" THEN "returned" ELSE status[t]]
  /\ pushQueue' = [t \in Subscribers |-> <<>>]
  /\ calls' = calls + 1
  /\ UNCHANGED <<storeVars, received, regAt, resp, published, created, returned, phase>>

\* the client completes or disconnects: the iterator's return() removes its
\* listener and empties its queue
Cancel(s) ==
  /\ phase # "exited"
  /\ status[s] = "subscribed"
  /\ status' = [status EXCEPT ![s] = "returned"]
  /\ pushQueue' = [pushQueue EXCEPT ![s] = <<>>]
  /\ calls' = calls + 1
  /\ UNCHANGED <<storeVars, received, regAt, resp, published, created, returned, phase>>

(***************************************************************************)
(* Shutdown. Apollo Server stops on a termination signal and calls the     *)
(* plugins' drainServer, which awaits serverCleanup.dispose(): graphql-ws   *)
(* closes every client socket (1001, going away), stops handling new       *)
(* connections, and resolves when the WebSocket server has closed, that    *)
(* is, when every client socket has closed. A socket that closes returns   *)
(* the iterators of its subscriptions. The process exits after the drain.  *)
(***************************************************************************)
\* server.stop() begins: drainServer calls serverCleanup.dispose()
Shutdown ==
  /\ phase = "running"
  /\ phase' = "draining"
  /\ UNCHANGED <<storeVars, channelVars, resp, calls, published, created, returned>>

\* the socket of stream s, told to go away, has closed: its iterator's return()
\* removes its listener and empties its queue
Closed(s) ==
  /\ phase = "draining"
  /\ status[s] = "subscribed"
  /\ status' = [status EXCEPT ![s] = "returned"]
  /\ pushQueue' = [pushQueue EXCEPT ![s] = <<>>]
  /\ UNCHANGED <<storeVars, received, regAt, resp, calls, published, created, returned, phase>>

disposeNotAwaited == TRUE

\* what `await serverCleanup.dispose()` waits for: every client socket closed
dispose == \A s \in Subscribers : status[s] # "subscribed"

\* the drain is over, server.stop() returns and the process ends
Exit ==
  /\ phase = "draining"
  /\ dispose
  /\ phase' = "exited"
  /\ UNCHANGED <<storeVars, channelVars, resp, calls, published, created, returned>>

(***************************************************************************)
(* Spec: the mutations and the bookSub channel, the store driven by a few   *)
(* inputs.                                                                 *)
(***************************************************************************)
Next ==
  \/ \E input \in SmallBookInputs : calls < MaxCalls /\ nAdds < MaxAdds /\ AddBook(input)
  \/ \E input \in SmallUpdateBookInputs : calls < MaxCalls /\ UpdateBook(input)
  \/ \E id \in IdInputs : calls < MaxCalls /\ DeleteBook(id)
  \/ \E s \in Subscribers : calls < MaxCalls /\ Subscribe(s)
  \/ \E s \in Subscribers : calls < MaxCalls /\ Cancel(s)
  \/ \E s \in Subscribers : Deliver(s)

Spec == Init /\ [][Next]_vars

(***************************************************************************)
(* SpecStore: the queries and mutations alone, over every input.           *)
(***************************************************************************)
NextStore ==
  \/ \E input \in BookInputs : calls < MaxStoreOps /\ nAdds < MaxAdds /\ AddBook(input)
  \/ \E input \in UpdateBookInputs : calls < MaxStoreOps /\ UpdateBook(input)
  \/ \E id \in IdInputs : calls < MaxStoreOps /\ DeleteBook(id)
  \/ \E id \in IdInputs : calls < MaxStoreOps /\ GetBook(id)

SpecStore == Init /\ [][NextStore]_vars

(***************************************************************************)
(* SpecShutdown: the calls of Spec, and the server shutting down at any     *)
(* moment.                                                                 *)
(***************************************************************************)
NextShutdown ==
  \/ Next
  \/ Shutdown
  \/ \E s \in Subscribers : Closed(s)
  \/ Exit

SpecShutdown == Init /\ [][NextShutdown]_vars

(***************************************************************************)
(* SpecQuery: the queries next to the mutations and the bookSub channel.   *)
(***************************************************************************)
NextQuery ==
  \/ \E search \in SearchInputs : calls < MaxQueryCalls /\ AllBooks(search)
  \/ \E id \in IdInputs : calls < MaxQueryCalls /\ GetBook(id)
  \/ \E input \in SmallBookInputs :
       calls < MaxQueryCalls /\ nAdds < MaxAdds /\ AddBook(input)
  \/ \E input \in SmallUpdateBookInputs : calls < MaxQueryCalls /\ UpdateBook(input)
  \/ \E id \in IdInputs : calls < MaxQueryCalls /\ DeleteBook(id)
  \/ \E s \in Subscribers : calls < MaxQueryCalls /\ Subscribe(s)
  \/ \E s \in Subscribers : calls < MaxQueryCalls /\ Cancel(s)
  \/ \E s \in Subscribers : Deliver(s)

SpecQuery == Init /\ [][NextQuery]_vars

(***************************************************************************)
(* What a stream has been handed: the references forwarded to its client,  *)
(* then those still pending in its queue.                                  *)
(***************************************************************************)
LogRefs(s) ==
  [i \in 1 .. Len(received[s]) |-> received[s][i].ref]
    \o [i \in 1 .. Len(pushQueue[s]) |-> resolve(pushQueue[s][i])]

Count(r, seq) == Cardinality({i \in DOMAIN seq : seq[i] = r})

\* the place of reference r in the order of publishes
Pos(r) == CHOOSE k \in DOMAIN published : published[k] = r

(***************************************************************************)
(* C1. Broadcast, exactly once: a stream that is registered holds exactly  *)
(* one event for every Book published since it registered, however many    *)
(* other streams are registered; no stream ever holds an event twice.      *)
(***************************************************************************)
C1_BroadcastExactlyOnce ==
  \A s \in Subscribers :
    /\ \A i \in DOMAIN published : Count(published[i], LogRefs(s)) <= 1
    /\ status[s] = "subscribed" =>
         \A i \in (regAt[s] + 1) .. Len(published) :
           Count(published[i], LogRefs(s)) = 1

\* two streams registered before a publish have both been forwarded that Book
C1_Witness ==
  \E s, t \in Subscribers :
    /\ s # t
    /\ regAt[s] = 0 /\ regAt[t] = 0
    /\ received[s] # <<>> /\ received[t] # <<>>
    /\ received[s][1].ref = published[1] /\ received[t][1].ref = published[1]

(***************************************************************************)
(* C2. No replay: a stream never holds an event for a Book published       *)
(* before it registered; a stream not yet opened holds nothing. So a       *)
(* publish made with no listener reaches nobody, then or later.            *)
(***************************************************************************)
C2_NoReplay ==
  \A s \in Subscribers :
    /\ status[s] = "new" => LogRefs(s) = <<>>
    /\ \A i \in DOMAIN published :
         i <= regAt[s] => Count(published[i], LogRefs(s)) = 0

\* the first Book was published with no listener; every stream registered after
\* it and has been forwarded the second Book only
C2_Witness ==
  /\ Len(published) = 2
  /\ \A s \in Subscribers :
       /\ status[s] = "subscribed"
       /\ regAt[s] = 1
       /\ Len(received[s]) = 1
       /\ received[s][1].ref = published[2]

(***************************************************************************)
(* C3. Per-listener order: what a stream has been handed is a subsequence  *)
(* of the order of publishes.                                              *)
(***************************************************************************)
C3_DeliveryOrder ==
  \A s \in Subscribers :
    /\ Range(LogRefs(s)) \subseteq Range(published)
    /\ \A i, j \in DOMAIN LogRefs(s) :
         i < j => Pos(LogRefs(s)[i]) < Pos(LogRefs(s)[j])

\* a stream has been forwarded two Books
C3_Witness ==
  \E s \in Subscribers :
    /\ Len(received[s]) >= 2
    /\ received[s][1].ref = published[1]
    /\ received[s][2].ref = published[2]

(***************************************************************************)
(* C4. Store before publish, in one step: in every state the publishes are *)
(* exactly the appends addBook made, in the same order; every Book of the  *)
(* array that addBook made has been published, and every event a stream    *)
(* holds is for a Book that was appended.                                  *)
(***************************************************************************)
C4_StoreAndPublishTogether ==
  /\ published = created
  /\ \A i \in DOMAIN books : books[i] > NSeed => books[i] \in Range(published)
  /\ \A s \in Subscribers : Range(LogRefs(s)) \subseteq Range(created)

\* a Book was added and its event forwarded, and the Book is in the array
C4_Witness ==
  /\ published # <<>>
  /\ published[1] \in Range(books)
  /\ \E s \in Subscribers : received[s] # <<>> /\ received[s][1].ref = published[1]

(***************************************************************************)
(* C5. No two Books of the array have the same id.                         *)
(***************************************************************************)
C5_UniqueIds ==
  \A i, j \in DOMAIN books : i # j => heap[books[i]].id # heap[books[j]].id

\* two Books were added, one of them was then updated and a seed Book deleted
C5_Witness ==
  /\ Len(created) >= 2
  /\ Range(created) \subseteq Range(books)
  /\ Len(books) < NSeed + Len(created)
  /\ \E i \in DOMAIN books : heap[books[i]].title = Some("Dune Messiah")

(***************************************************************************)
(* C6. addBook with a missing or empty title, or a missing or empty        *)
(* author, is rejected and leaves the array and its Books as they were.    *)
(***************************************************************************)
C6_CreateRejectsMissingOrEmpty ==
  [][\A input \in BookInputs :
       ((~TruthyStr(input.title) \/ ~TruthyStr(input.author)) /\ AddBook(input))
         => (resp'.kind = "error" /\ books' = books /\ heap' = heap)]_vars

(***************************************************************************)
(* C7. getBook, updateBook and deleteBook on an id that is not in the      *)
(* array answer with the absent value and no failure, and leave the array  *)
(* and its Books as they were; no call but addBook ever fails.             *)
(***************************************************************************)
AbsentWithoutFailure ==
  /\ resp'.kind = "data"
  /\ resp'.value = Absent
  /\ books' = books
  /\ heap' = heap

C7_UnknownIdIsAbsentNotFailure ==
  [][/\ \A id \in IdInputs :
          find(id, books, heap) = Absent =>
            /\ GetBook(id) => AbsentWithoutFailure
            /\ DeleteBook(id) => AbsentWithoutFailure
            /\ \A input \in UpdateBookInputs :
                 (input.id = id /\ UpdateBook(input)) => AbsentWithoutFailure
     /\ (resp' # resp /\ resp'.kind = "error") => resp'.op = "addBook"]_vars

(***************************************************************************)
(* C8. A successful addBook returns the stored Book, appended to the       *)
(* array, with a fresh non-empty id; title, author and year as supplied;   *)
(* description "" when not supplied and as supplied otherwise; rating      *)
(* absent when not supplied and as supplied (0 included) otherwise.        *)
(***************************************************************************)
C8_CreateDefaultsAndResult ==
  [][\A input \in BookInputs :
       (ValidBookInput(input) /\ AddBook(input)) =>
         LET ref == Len(heap')
             b == heap'[ref]
         IN  /\ Len(heap') = Len(heap) + 1
             /\ books' = Append(books, ref)
             /\ resp' = Data("addBook", Some(b))
             /\ b.id # ""
             /\ \A r \in DOMAIN heap : heap[r].id # b.id
             /\ b.title = input.title
             /\ b.author = input.author
             /\ b.year = input.year
             /\ b.description =
                  (IF input.description = Absent THEN Some("") ELSE input.description)
             /\ b.rating = input.rating]_vars

(***************************************************************************)
(* C9. updateBook on an id of the array, with title, description, author,  *)
(* year and rating each falsy or omitted, changes no field of any Book,    *)
(* leaves the array as it was and returns the target Book.                 *)
(***************************************************************************)
AllFalsy(input) ==
  /\ ~TruthyStr(input.title)
  /\ ~TruthyStr(input.description)
  /\ ~TruthyStr(input.author)
  /\ ~TruthyNum(input.year)
  /\ ~TruthyNum(input.rating)

\* a step of updateBook(input) that changed nothing and returned the target
UnchangedBy(input) ==
  /\ heap' = heap
  /\ books' = books
  /\ resp' = Data("updateBook", Some(heap[find(input.id, books, heap)[1]]))

C9_FalsyUpdateIsNoOp ==
  [][\A id \in IdInputs :
       find(id, books, heap) # Absent =>
         \A input \in UpdateBookInputs :
           (input.id = id /\ AllFalsy(input) /\ UpdateBook(input)) => UnchangedBy(input)]_vars

\* an updateBook on a seed Book has answered with that Book, and every Book is
\* as it was seeded
C9_Witness ==
  /\ resp.op = "updateBook"
  /\ resp.kind = "data"
  /\ resp.value = Some(SeedBooks[1])
  /\ heap = SeedBooks
  /\ calls = 1

(***************************************************************************)
(* C10. updateBook on an id of the array: each of title, description,      *)
(* author, year and rating becomes the supplied value when that value is   *)
(* truthy and keeps its previous value otherwise; the id is kept; the      *)
(* call returns the Book as stored after the merge.                        *)
(***************************************************************************)
\* a step of updateBook(input) that merged field by field and returned the result
MergedBy(input) ==
  LET ref == find(input.id, books, heap)[1]
      old == heap[ref]
      new == heap'[ref]
  IN  /\ new.title = (IF TruthyStr(input.title) THEN input.title ELSE old.title)
      /\ new.description =
           (IF TruthyStr(input.description) THEN input.description ELSE old.description)
      /\ new.author = (IF TruthyStr(input.author) THEN input.author ELSE old.author)
      /\ new.year = (IF TruthyNum(input.year) THEN input.year ELSE old.year)
      /\ new.rating = (IF TruthyNum(input.rating) THEN input.rating ELSE old.rating)
      /\ new.id = old.id
      /\ resp' = Data("updateBook", Some(new))

C10_UpdateMergePolicy ==
  [][\A id \in IdInputs :
       find(id, books, heap) # Absent =>
         \A input \in UpdateBookInputs :
           (input.id = id /\ UpdateBook(input)) => MergedBy(input)]_vars

\* an updateBook has given a seed Book a new title and year and left its
\* description, author and rating as they were
C10_Witness ==
  /\ resp.op = "updateBook"
  /\ resp.kind = "data"
  /\ resp.value = Some(heap[1])
  /\ heap[1].title = Some("Dune Messiah")
  /\ heap[1].year = Some(1969)
  /\ heap[1].description = SeedBooks[1].description
  /\ heap[1].author = SeedBooks[1].author
  /\ heap[1].rating = SeedBooks[1].rating

(***************************************************************************)
(* C11. allBooks with no search term or the empty one returns every Book   *)
(* of the array; with a non-empty term it returns exactly the Books whose  *)
(* title contains the term, letters compared without regard to case, none  *)
(* left out and none added, and the empty list (no failure) when no title  *)
(* contains it; the array and its Books are left as they were.             *)
(***************************************************************************)
\* the two cases of each letter, paired either way round
LetterPairs ==
  UNION {{<<SubSeq(UpperCase, n, n), SubSeq(LowerCase, n, n)>>,
          <<SubSeq(LowerCase, n, n), SubSeq(UpperCase, n, n)>>} :
            n \in 1 .. Len(UpperCase)}

\* characters c and d are equal, or the two cases of one letter
SameLetter(c, d) == c = d \/ <<c, d>> \in LetterPairs

\* some slice of title is term, letter for letter without regard to case
TitleContains(title, term) ==
  \E k \in 0 .. (Len(title) - Len(term)) :
    \A j \in 1 .. Len(term) :
      SameLetter(SubSeq(title, k + j, k + j), SubSeq(term, j, j))

\* the places in the array of the Books allBooks(search) is to return
Wanted(search) ==
  {i \in DOMAIN books :
     ~TruthyStr(search) \/ TitleContains(heap[books[i]].title[1], search[1])}

C11_ListSemantics ==
  [][\A search \in SearchInputs :
       (resp'.op = "allBooks" /\ AllBooks(search)) =>
         /\ resp'.kind = "data"
         /\ resp'.value # Absent
         /\ books' = books
         /\ heap' = heap
         /\ LET list == resp'.value[1]
            IN  /\ Len(list) = Cardinality(Wanted(search))
                /\ \A i \in Wanted(search) : \E k \in DOMAIN list : list[k] = heap[books[i]]
                /\ \A k \in DOMAIN list : \E i \in Wanted(search) : list[k] = heap[books[i]]]_vars

\* allBooks has answered with one Book of several, the one whose title has
\* "Train" in it
C11_Witness ==
  /\ resp.op = "allBooks"
  /\ resp.kind = "data"
  /\ Len(books) > 1
  /\ Len(resp.value[1]) = 1
  /\ resp.value[1][1].title = Some("The Girl on the Train")

(***************************************************************************)
(* C12. deleteBook on an id of the array removes that Book and no other    *)
(* (the array is one shorter), and answers with the removed Book; from     *)
(* then on the id is the id of no Book of the array, whatever addBook,     *)
(* updateBook and deleteBook calls follow, and getBook on it answers with  *)
(* the absent value.                                                       *)
(***************************************************************************)
\* the ids of the Books that were taken out of the array
DeletedIds == {heap[r].id : r \in DOMAIN heap \ Range(books)}

\* a step of deleteBook(id) that took the Book with that id, and it alone, out
\* of the array
RemovedBy(id) ==
  LET ref == find(id, books, heap)[1]
  IN  /\ Len(books') = Len(books) - 1
      /\ Range(books') = Range(books) \ {ref}
      /\ heap' = heap
      /\ id \in DeletedIds'

\* no id of a Book taken out of the array is the id of a Book of the array
NeverReappears ==
  \A i \in DOMAIN books : heap[books[i]].id \notin DeletedIds

C12_DeleteRemovesForGood ==
  [][/\ \A id \in IdInputs :
          (find(id, books, heap) # Absent /\ DeleteBook(id)) =>
            /\ RemovedBy(id)
            /\ resp' = Data("deleteBook", Some(heap[find(id, books, heap)[1]]))
     /\ \A id \in IdInputs :
          (id \in DeletedIds /\ GetBook(id)) => resp' = Data("getBook", Absent)
     /\ NeverReappears']_vars

(***************************************************************************)
(* C13. Cancelling one stream ends that stream alone: nothing is forwarded *)
(* to it afterwards, the array and its Books are as they were, and every   *)
(* other stream keeps its registration, what it was forwarded and what is  *)
(* pending for it; a stream that stays registered next to a cancelled one  *)
(* holds every Book published since it registered, once and in the order   *)
(* of the publishes.                                                       *)
(***************************************************************************)
\* stream t holds exactly the Books published since it registered, in order
HoldsAllSince(t) ==
  LogRefs(t) = SubSeq(published, regAt[t] + 1, Len(published))

C13_CancellationIsLocal ==
  [][/\ \A s \in Subscribers :
          Cancel(s) =>
            /\ heap' = heap /\ books' = books /\ issued' = issued
            /\ \A t \in Subscribers \ {s} :
                 /\ status'[t] = status[t]
                 /\ pushQueue'[t] = pushQueue[t]
                 /\ received'[t] = received[t]
     /\ \A s \in Subscribers :
          status[s] = "returned" =>
            /\ status'[s] = "returned"
            /\ received'[s] = received[s]
            /\ pushQueue'[s] = <<>>
     /\ \A t \in Subscribers :
          (status'[t] = "subscribed" /\ \E s \in Subscribers : status'[s] = "returned")
            => HoldsAllSince(t)']_vars

\* of two streams registered from the start, one was cancelled after its first
\* Book; the other has been forwarded both Books published
C13_Witness ==
  \E s, t \in Subscribers :
    /\ regAt[s] = 0 /\ regAt[t] = 0
    /\ status[s] = "returned" /\ status[t] = "subscribed"
    /\ Len(published) = 2
    /\ Len(received[s]) = 1
    /\ Len(received[t]) = 2
    /\ received[t][1].ref = published[1] /\ received[t][2].ref = published[2]

(***************************************************************************)
(* C14. A stream that does not consume its pending events holds up nobody: *)
(* whatever is pending, addBook can run (within the bounds of the model),  *)
(* every registered stream with a pending event can be forwarded it, and   *)
(* forwarding to one stream changes nothing pending for or forwarded to    *)
(* another; each registered stream holds all the publishes since it        *)
(* registered, however far the others have consumed.                       *)
(***************************************************************************)
C14_SlowListenerIsolation ==
  /\ (calls < MaxCalls /\ nAdds < MaxAdds) =>
       \A input \in SmallBookInputs : ENABLED AddBook(input)
  /\ \A t \in Subscribers :
       (status[t] = "subscribed" /\ pushQueue[t] # <<>>) =>
         /\ ENABLED Deliver(t)
         /\ ~ENABLED (/\ Deliver(t)
                      /\ \E s \in Subscribers \ {t} :
                           pushQueue'[s] # pushQueue[s] \/ received'[s] # received[s])
  /\ \A t \in Subscribers : status[t] = "subscribed" => HoldsAllSince(t)

\* two Books were published to two streams; one has consumed nothing and has
\* both pending, the other has been forwarded both
C14_Witness ==
  \E s, t \in Subscribers :
    /\ status[s] = "subscribed" /\ status[t] = "subscribed"
    /\ regAt[s] = 0 /\ regAt[t] = 0
    /\ Len(published) = 2
    /\ received[s] = <<>> /\ Len(pushQueue[s]) = 2
    /\ Len(received[t]) = 2 /\ pushQueue[t] = <<>>

(***************************************************************************)
(* C15. When the process has exited after a shutdown, no stream is         *)
(* registered and nothing is pending for any stream: every stream open     *)
(* when the shutdown began was cancelled first. A stream whose connection  *)
(* has closed is not registered and holds nothing, and once the shutdown   *)
(* has begun no stream is opened.                                          *)
(***************************************************************************)
C15_ShutdownReleasesSubscriptions ==
  /\ phase = "exited" =>
       /\ Listeners = {}
       /\ \A s \in Subscribers : pushQueue[s] = <<>>
  /\ \A s \in Subscribers :
       status[s] = "returned" => (s \notin Listeners /\ pushQueue[s] = <<>>)
  /\ phase # "running" => \A s \in Subscribers : ~ENABLED Subscribe(s)

\* the process has exited; two streams were open when the shutdown began, one
\* with a Book pending, and both were closed by it (no client call closed them)
C15_Witness ==
  /\ phase = "exited"
  /\ calls = MaxSubscribers + 1
  /\ Len(published) = 1
  /\ \A s \in Subscribers : status[s] = "returned" /\ regAt[s] = 0
  /\ \E s \in Subscribers : received[s] = <<>>

(***************************************************************************)
(* C16. The array holds the surviving Books in the order they were         *)
(* created, the seed Books first in their initial order, after every step: *)
(* addBook appends its Book at the end, deleteBook leaves the others in    *)
(* their order, updateBook moves nothing; and allBooks, with or without a  *)
(* search term, answers with Books in that order.                          *)
(***************************************************************************)
\* when the Book with this id was created: Books are allocated in the order of
\* their creation, the seed Books first
CreatedAt(id) == CHOOSE r \in DOMAIN heap : heap[r].id = id

\* the array is in the order of creation
InCreationOrder(bks) == \A i, j \in DOMAIN bks : i < j => bks[i] < bks[j]

\* the last answer, when it is a list of Books, is in the order of creation
AnswerInCreationOrder ==
  (resp.op = "allBooks" /\ resp.kind = "data") =>
    \A i, j \in DOMAIN resp.value[1] :
      i < j => CreatedAt(resp.value[1][i].id) < CreatedAt(resp.value[1][j].id)

C16_InsertionOrderPreserved ==
  [][/\ InCreationOrder(books')
     /\ AnswerInCreationOrder'
     /\ \A input \in SmallBookInputs :
          (ValidBookInput(input) /\ AddBook(input)) =>
            (Len(books') = Len(books) + 1 /\ SubSeq(books', 1, Len(books)) = books)
     /\ \A id \in IdInputs :
          DeleteBook(id) => books' = SelectSeq(books, LAMBDA r : r \in Range(books'))
     /\ \A input \in SmallUpdateBookInputs : UpdateBook(input) => books' = books]_vars

\* after an addBook, an updateBook of the added Book and the deleteBook of the
\* first seed Book, allBooks has answered with the other seed Books and then the
\* added one
C16_Witness ==
  /\ resp.op = "allBooks"
  /\ resp.kind = "data"
  /\ Len(resp.value[1]) = NSeed
  /\ resp.value[1][1].id = SeedBooks[2].id
  /\ resp.value[1][NSeed].id = NanoId(1)
  /\ resp.value[1][NSeed].title = Some("Dune Messiah")

(***************************************************************************)
(* C17. updateBook changes no Book's id, no field of a Book whose id is    *)
(* not input.id, and neither the length nor the order of the array; and    *)
(* no step at all changes the id of a Book, so a Book has one id from its  *)
(* creation to its deletion.                                               *)
(***************************************************************************)
\* every Book there is keeps its id in this step
IdsKept == \A r \in DOMAIN heap : heap'[r].id = heap[r].id

C17_UpdateFrame ==
  [][/\ \A input \in SmallUpdateBookInputs :
          UpdateBook(input) =>
            /\ books' = books
            /\ Len(heap') = Len(heap)
            /\ \A r \in DOMAIN heap : heap[r].id # input.id => heap'[r] = heap[r]
     /\ Len(heap') >= Len(heap)
     /\ IdsKept]_vars

\* an added Book and a seed Book were both given a new title by updateBook; both
\* have the ids they were created with, and the array is as long as it was
C17_Witness ==
  /\ Len(heap) > NSeed
  /\ books = [i \in 1 .. NSeed + 1 |-> i]
  /\ heap[1].title = Some("Dune Messiah")
  /\ heap[1].id = SeedBooks[1].id
  /\ heap[NSeed + 1].title = Some("Dune Messiah")
  /\ heap[NSeed + 1].id = NanoId(1)
  /\ resp.op = "updateBook"

(***************************************************************************)
(* C18. Only addBook emits events. Every event a stream holds is for a     *)
(* Book a successful addBook made after the stream registered, never a     *)
(* seed Book, and a stream holds no more events than there were such       *)
(* calls; updateBook, deleteBook, allBooks, getBook and a rejected addBook *)
(* leave what every stream holds as it was, and a step that is not a       *)
(* successful addBook adds no event to any stream.                         *)
(***************************************************************************)
\* what the streams hold, pending and forwarded, is as it was
ChannelUntouched == pushQueue' = pushQueue /\ received' = received /\ status' = status

\* every event stream s holds is for a Book addBook made after s registered
OnlyCreationsSince(s) ==
  /\ \A i \in DOMAIN LogRefs(s) :
       /\ LogRefs(s)[i] > NSeed
       /\ \E k \in (regAt[s] + 1) .. Len(created) : created[k] = LogRefs(s)[i]
  /\ \A i \in DOMAIN received[s] :
       \A k \in 1 .. NSeed : received[s][i].book.id # SeedBooks[k].id
  /\ Len(LogRefs(s)) <= Len(returned) - regAt[s]

C18_OnlyCreationEmits ==
  [][/\ \A s \in Subscribers : OnlyCreationsSince(s)'
     /\ \A input \in SmallUpdateBookInputs :
          (resp'.op = "updateBook" /\ UpdateBook(input)) => ChannelUntouched
     /\ \A id \in IdInputs :
          (resp'.op = "deleteBook" /\ DeleteBook(id)) => ChannelUntouched
     /\ \A id \in IdInputs :
          (resp'.op = "getBook" /\ GetBook(id)) => ChannelUntouched
     /\ \A search \in SearchInputs :
          (resp'.op = "allBooks" /\ AllBooks(search)) => ChannelUntouched
     /\ \A input \in SmallBookInputs :
          (~ValidBookInput(input) /\ resp'.op = "addBook" /\ AddBook(input))
            => ChannelUntouched
     /\ Len(returned') = Len(returned) =>
          \A s \in Subscribers : Len(LogRefs(s)') <= Len(LogRefs(s))]_vars

\* a stream registered from the start has been forwarded the one Book added;
\* a seed Book was then updated and allBooks called, and nothing more is held
C18_Witness ==
  /\ resp.op = "allBooks"
  /\ heap[1].title = Some("Dune Messiah")
  /\ Len(returned) = 1
  /\ \E s \in Subscribers :
       /\ status[s] = "subscribed"
       /\ regAt[s] = 0
       /\ Len(received[s]) = 1
       /\ received[s][1].ref = created[1]
       /\ pushQueue[s] = <<>>

(***************************************************************************)
(* C19. The Book forwarded to a stream for a creation has the id and the   *)
(* field values of the Book that addBook call returned, and so has the     *)
(* Book of every pending event, also when updateBook or deleteBook ran on  *)
(* that id after the publish and before the stream consumed the event.     *)
(***************************************************************************)
\* the Book addBook returned when it created the Book of reference ref
ReturnedFor(ref) == returned[CHOOSE k \in DOMAIN created : created[k] = ref]

C19_DeliveredEqualsCreated ==
  \A s \in Subscribers :
    /\ \A i \in DOMAIN received[s] :
         received[s][i].book = ReturnedFor(received[s][i].ref)
    /\ \A i \in DOMAIN pushQueue[s] :
         heap[resolve(pushQueue[s][i])] = ReturnedFor(resolve(pushQueue[s][i]))

====
